---- MODULE Spec2Model ----
(***************************************************************************)
(* The content graph builder of src/src/content.ts: the section scan       *)
(* (getPagesFromSection), the section and subsection loaders, the link     *)
(* extractor, and the queries built on them (getPost, getPostsByTag,       *)
(* getAllPages, getAllTags, getTag, getAllLinks, getGlobalStats).           *)
(*                                                                         *)
(* A string is a sequence of one-character strings, so that the string     *)
(* operations of the code (startsWith, includes, replace, match,           *)
(* localeCompare) are computed character by character.  The fields html,   *)
(* readingTime, description, updated and draft are copied from the file    *)
(* into the entity unchanged and are read by no query; they are left out.  *)
(***************************************************************************)
EXTENDS Integers, Sequences, FiniteSets, TLC

VARIABLES
  blog,     \* the entries of content/blog besides _index.md (a set: readDir fixes no order)
  site,     \* which of the content roots of Sites surrounds the blog section
  pc,       \* position of the running section scan: "idle", "scan", "returned", "threw"
  todo,     \* entries of the directory the running scan has not enumerated yet
  pages,    \* the local array `pages` of the running scan
  error,    \* the error the running scan threw ("" while none)
  result,   \* the settled promise of the last query: [op, arg, ok, val | err]
  again     \* the settled promise of the same query called a second time

vars == <<blog, site, pc, todo, pages, error, result, again>>

----------------------------------------------------------------------------
(* Bounds *)

\* the largest number of entries (besides _index.md) in the blog directory
MaxEntries == 3

\* the largest number of such entries when a query is called twice
MaxRepeated == 2

----------------------------------------------------------------------------
(* Strings *)

Range(s) == { s[i] : i \in 1..Len(s) }

\* the sequence with the elements of f, each computed once
Array(f) == f \o <<>>

DigitChars == <<"0","1","2","3","4","5","6","7","8","9">>

IsDigit(c) == c \in {"0","1","2","3","4","5","6","7","8","9"}

DigitVal(c) ==
  CASE c = "0" -> 0 [] c = "1" -> 1 [] c = "2" -> 2 [] c = "3" -> 3 [] c = "4" -> 4
    [] c = "5" -> 5 [] c = "6" -> 6 [] c = "7" -> 7 [] c = "8" -> 8 [] c = "9" -> 9

\* String.prototype.startsWith
StartsWith(s, p) == Len(s) >= Len(p) /\ SubSeq(s, 1, Len(p)) = p

\* String.prototype.indexOf, 1-based; 0 when p does not occur in s
IndexOf(s, p) ==
  LET hits == { i \in 1..(Len(s) - Len(p) + 1) : SubSeq(s, i, i + Len(p) - 1) = p }
  IN IF hits = {} THEN 0 ELSE CHOOSE i \in hits : \A j \in hits : i <= j

\* String.prototype.includes
Includes(s, p) == IndexOf(s, p) # 0

\* String.prototype.replace with a string pattern: the first occurrence only
ReplaceFirst(s, p, r) ==
  LET i == IndexOf(s, p)
  IN IF i = 0 THEN s
     ELSE SubSeq(s, 1, i - 1) \o r \o SubSeq(s, i + Len(p), Len(s))

\* the decimal numeral of n, left-padded with zeros to width w
RECURSIVE Pad(_, _)
Pad(n, w) == IF w = 0 THEN <<>> ELSE Pad(n \div 10, w - 1) \o <<DigitChars[(n % 10) + 1]>>

\* the number a string of digits denotes
RECURSIVE Num(_)
Num(s) == IF s = <<>> THEN 0
          ELSE 10 * Num(SubSeq(s, 1, Len(s) - 1)) + DigitVal(s[Len(s)])

\* the strings of a sequence joined by a separator
RECURSIVE Join(_, _)
Join(ss, sep) == IF ss = <<>> THEN <<>>
                 ELSE IF Len(ss) = 1 THEN ss[1]
                 ELSE ss[1] \o sep \o Join(Tail(ss), sep)

\* String.prototype.split on a one-character separator
RECURSIVE Split(_, _)
Split(s, c) ==
  LET i == IndexOf(s, <<c>>)
  IN IF i = 0 THEN <<s>>
     ELSE <<SubSeq(s, 1, i - 1)>> \o Split(SubSeq(s, i + 1, Len(s)), c)

----------------------------------------------------------------------------
(* Regular expressions: a pattern is a sequence of atoms, "." any character,
   "\\d" a digit, any other atom the character itself. *)

AtomMatches(a, c) ==
  CASE a = "."   -> TRUE
    [] a = "\\d" -> IsDigit(c)
    [] OTHER     -> a = c

MatchAt(s, i, pat) ==
  /\ i + Len(pat) - 1 <= Len(s)
  /\ \A j \in 1..Len(pat) : AtomMatches(pat[j], s[i + j - 1])

\* an unanchored search for one of the alternatives, as String.prototype.match
\* does with the regular expression it builds from a string argument
RegexSearch(s, alts) ==
  \E a \in 1..Len(alts) : \E i \in 1..Len(s) : MatchAt(s, i, alts[a])

\* /^\d{4}-\d{2}-\d{2}/
YYYY_MM_DD_REGEX == <<"\\d","\\d","\\d","\\d","-","\\d","\\d","-","\\d","\\d">>

\* name.match(YYYY_MM_DD_REGEX): <<>> for null, else the match array <<match[0]>>
MatchDate(name) ==
  IF MatchAt(name, 1, YYYY_MM_DD_REGEX)
  THEN <<SubSeq(name, 1, Len(YYYY_MM_DD_REGEX))>>
  ELSE <<>>

\* the alternatives of the pattern ".DS_Store|_index.md|_index.no.md"
SKIP_REGEX ==
  << <<".","D","S","_","S","t","o","r","e">>,
     <<"_","i","n","d","e","x",".","m","d">>,
     <<"_","i","n","d","e","x",".","n","o",".","m","d">> >>

----------------------------------------------------------------------------
(* Dates: new Date("YYYY-MM-DD") is midnight UTC of that day. *)

InvalidDate == [valid |-> FALSE, y |-> 0, m |-> 0, d |-> 0]

IsLeap(y) == (y % 4 = 0 /\ y % 100 # 0) \/ y % 400 = 0

DaysInMonth(y, m) ==
  IF m = 2 THEN (IF IsLeap(y) THEN 29 ELSE 28)
  ELSE IF m \in {4, 6, 9, 11} THEN 30 ELSE 31

\* The date parser accepts months 1..12 and days 1..31 and hands them to
\* MakeDay, which carries a day past the end of the month into the next
\* month (December has 31 days, so the year never changes).
NewDate(s) ==
  LET y == Num(SubSeq(s, 1, 4))
      m == Num(SubSeq(s, 6, 7))
      d == Num(SubSeq(s, 9, 10))
  IN IF m \notin 1..12 \/ d \notin 1..31 THEN InvalidDate
     ELSE IF d > DaysInMonth(y, m)
          THEN [valid |-> TRUE, y |-> y, m |-> m + 1, d |-> d - DaysInMonth(y, m)]
          ELSE [valid |-> TRUE, y |-> y, m |-> m, d |-> d]

\* Date.prototype.toISOString of a valid date (it throws RangeError on an
\* invalid one; the callers test valid first)
ISO_SUFFIX == <<"T","0","0",":","0","0",":","0","0",".","0","0","0","Z">>

toISOString(date) ==
  Pad(date.y, 4) \o <<"-">> \o Pad(date.m, 2) \o <<"-">> \o Pad(date.d, 2) \o ISO_SUFFIX

\* the instants of two valid dates compared: a >= b
DateGeq(a, b) ==
  \/ a.y > b.y
  \/ a.y = b.y /\ a.m > b.m
  \/ a.y = b.y /\ a.m = b.m /\ a.d >= b.d

----------------------------------------------------------------------------
(* String.prototype.localeCompare under the default (root) collation, on the
   characters the model uses: punctuation sorts before digits, digits before
   letters; letters compare without case first, and on a tie a lower-case
   letter sorts before its upper-case form. *)

LowerChars == <<"a","b","c","d","e","f","g","h","i","j","k","l","m",
                "n","o","p","q","r","s","t","u","v","w","x","y","z">>
UpperChars == <<"A","B","C","D","E","F","G","H","I","J","K","L","M",
                "N","O","P","Q","R","S","T","U","V","W","X","Y","Z">>
PunctChars == <<" ","_","-",":",".","/","#","@","?","=">>

\* the place of each letter in the alphabet, whatever its case
LetterIndex ==
  [c \in Range(LowerChars) \cup Range(UpperChars) |->
     CHOOSE i \in 1..Len(LowerChars) : LowerChars[i] = c \/ UpperChars[i] = c]

PunctIndex == [c \in Range(PunctChars) |-> CHOOSE i \in 1..Len(PunctChars) : PunctChars[i] = c]

IsUpper(c) == c \in Range(UpperChars)

toLowerChar(c) == IF IsUpper(c) THEN LowerChars[LetterIndex[c]] ELSE c

\* String.prototype.toLowerCase
toLowerCase(s) == Array([i \in 1..Len(s) |-> toLowerChar(s[i])])

PrimaryWeight(c) ==
  IF c \in DOMAIN PunctIndex THEN PunctIndex[c]
  ELSE IF IsDigit(c) THEN Len(PunctChars) + 1 + DigitVal(c)
  ELSE Len(PunctChars) + Len(DigitChars) + LetterIndex[c]

\* lexicographic comparison of two sequences of numbers: -1, 0 or 1
RECURSIVE LexCompare(_, _)
LexCompare(a, b) ==
  IF a = <<>> /\ b = <<>> THEN 0
  ELSE IF a = <<>> THEN -1
  ELSE IF b = <<>> THEN 1
  ELSE IF a[1] < b[1] THEN -1
  ELSE IF a[1] > b[1] THEN 1
  ELSE LexCompare(Tail(a), Tail(b))

localeCompare(a, b) ==
  LET prim == LexCompare(Array([i \in 1..Len(a) |-> PrimaryWeight(a[i])]),
                         Array([i \in 1..Len(b) |-> PrimaryWeight(b[i])]))
  IN IF prim # 0 THEN prim
     ELSE LexCompare(Array([i \in 1..Len(a) |-> IF IsUpper(a[i]) THEN 1 ELSE 0]),
                     Array([i \in 1..Len(b) |-> IF IsUpper(b[i]) THEN 1 ELSE 0]))

\* Array.prototype.sort with a comparator that is a total preorder: stable,
\* so an element moves in front of another only when it compares smaller.
\* cmp[j, i] is what the comparator returns for the elements j and i of s.
SortBy(s, cmp) ==
  LET before(i) == { j \in 1..Len(s) : cmp[j, i] < 0 \/ (cmp[j, i] = 0 /\ j < i) }
      pos == Array([i \in 1..Len(s) |-> 1 + Cardinality(before(i))])
  IN Array([k \in 1..Len(s) |-> s[CHOOSE i \in 1..Len(s) : pos[i] = k]])

\* the concatenation of a sequence of sequences (what flatMap leaves)
RECURSIVE Flatten(_)
Flatten(ss) == IF ss = <<>> THEN <<>> ELSE ss[1] \o Flatten(Tail(ss))

\* the elements of a sequence with later duplicates dropped (insertion into a Set)
RECURSIVE Unique(_)
Unique(s) ==
  IF s = <<>> THEN <<>>
  ELSE LET init == Unique(SubSeq(s, 1, Len(s) - 1))
           x == s[Len(s)]
       IN IF \E i \in 1..Len(init) : init[i] = x THEN init ELSE Append(init, x)

\* every ordering of a finite set
Perms(S) == { p \in [1..Cardinality(S) -> S] : \A i, j \in 1..Cardinality(S) : p[i] = p[j] => i = j }

----------------------------------------------------------------------------
(* String constants of the code *)

S_MD == <<".","m","d">>
S_INDEX == <<"_","i","n","d","e","x">>
S_INDEX_MD == <<"_","i","n","d","e","x",".","m","d">>
S_NESTED_INDEX == <<"i","n","d","e","x",".","m","d">>
S_MAIN == <<"m","a","i","n">>
S_TAGS == <<"t","a","g","s","/">>
S_MAILTO == <<"m","a","i","l","t","o",":">>
S_BLOG == <<"b","l","o","g">>
S_SCHEME == <<":","/","/">>
S_DS_STORE == <<".","D","S","_","S","t","o","r","e">>
S_NAN == <<"N","a","N">>
S_CO == <<"c","o">>
S_UK == <<"u","k">>

----------------------------------------------------------------------------
(* Results of the asynchronous functions: a value, or the error thrown. *)

Ok(v) == [ok |-> TRUE, val |-> v]
Err(e) == [ok |-> FALSE, err |-> e]

\* a function that returns null: a result without a value
OkNull == [ok |-> TRUE, isNull |-> TRUE]
IsNull(r) == "isNull" \in DOMAIN r

\* the place of a value that is never read
Null == [null |-> TRUE]

----------------------------------------------------------------------------
(* The file system.  A directory entry is
     [name, isDirectory, doc, entries]
   with doc the file's document (Null for a directory) and entries the
   directory's own entries in the order readDir yields them (<<>> for a file).
   A document is [parses, attrs, body]: attrs the front matter, body
   [tokens, links, words], the token tree marked.lexer builds from the text,
   the reference definitions it registers in tokens.links, and the number of
   words getWordCount counts in the text. *)

File(name, doc) == [name |-> name, isDirectory |-> FALSE, doc |-> doc, entries |-> <<>>]
Dir(name, entries) == [name |-> name, isDirectory |-> TRUE, doc |-> Null, entries |-> entries]

Doc(attrs, body) == [parses |-> TRUE, attrs |-> attrs, body |-> body]
BadDoc == [parses |-> FALSE, attrs |-> Null, body |-> Null]

\* `await x` and what follows it: a rejected promise (an error thrown) ends
\* the caller with the same error, a fulfilled one hands its result on
Await(x, Then(_)) == IF x.ok THEN Then(x) ELSE x

\* getMarkdownFile(path), the path resolved to the entry `name` of directory
\* `entries`: NotFound when there is no such file, ParseError when its front
\* matter is malformed, else {attrs, body}
fileNamed(entries, name) ==
  SelectSeq(entries, LAMBDA e : e.name = name /\ ~e.isDirectory)

readDoc(files) ==
  IF files = <<>> THEN Err("NotFound")
  ELSE IF ~files[1].doc.parses THEN Err("ParseError")
  ELSE Ok([attrs |-> files[1].doc.attrs, body |-> files[1].doc.body])

getMarkdownFile(entries, name) == readDoc(fileNamed(entries, name))

\* getWordCount(body)
getWordCount(body) == body.words

\* slugify(tag): lower case, a space becoming a hyphen
slugify(tag) == Array([i \in 1..Len(tag) |-> IF tag[i] = " " THEN "-" ELSE toLowerChar(tag[i])])

----------------------------------------------------------------------------
(* The link extractor *)

HasField(r, f) == f \in DOMAIN r

\* getLinksFromTokens: the link tokens of a token tree, depth first, a
\* token's items before its tokens
RECURSIVE getLinksFromTokens(_)
linksOfToken(token) ==
  (IF token.type = "link" THEN <<token>> ELSE <<>>)
  \o (IF HasField(token, "items") THEN getLinksFromTokens(token.items) ELSE <<>>)
  \o (IF HasField(token, "tokens") THEN getLinksFromTokens(token.tokens) ELSE <<>>)

getLinksFromTokens(tokens) ==
  IF tokens = <<>> THEN <<>>
  ELSE linksOfToken(tokens[1]) \o getLinksFromTokens(Tail(tokens))

\* the test that discards a mail link
IsMailLink(href) == Includes(href, S_MAILTO)

\* the chain of tests of the loop of getLinks over the collected links
classify(href) ==
  IF IsMailLink(href) THEN "discard"
  ELSE IF StartsWith(href, <<"#">>) THEN "discard"
  ELSE IF StartsWith(href, <<"/">>) THEN "internal"
  ELSE "external"

\* Array.from of the Set the loop adds the hrefs of one class to
hrefsOfClass(links, class) ==
  Unique(SelectSeq(Array([i \in 1..Len(links) |-> links[i].href]),
                   LAMBDA h : classify(h) = class))

\* the links getLinks collects: the link tokens, then Object.values(tokens.links)
collectLinks(body) == getLinksFromTokens(body.tokens) \o body.links

classifyLinks(links) ==
  [internal |-> hrefsOfClass(links, "internal"),
   external |-> hrefsOfClass(links, "external")]

getLinks(body) == classifyLinks(collectLinks(body))

\* `...(links && { links })`: getLinks returns an object, and an object is
\* truthy whatever its arrays hold
WithLinks(entity, links) == entity @@ [links |-> links]

----------------------------------------------------------------------------
(* Pages, posts and sections.  `dir` is the directory a section path resolves
   to, its entries in the order readDir yields them. *)

\* the object getPage returns
pageOf(attrs, body, slug, section) ==
  WithLinks(
    [title |-> attrs.title,
     path |-> IF section # <<>> THEN section \o <<"/">> \o slug ELSE slug,
     slug |-> slug,
     wordCount |-> getWordCount(body),
     section |-> IF section # <<>> THEN section ELSE S_MAIN],
    getLinks(body))

\* getPage({slug, section}) with the directory the path resolves to; section
\* is <<>> (no section given: `section ? .. : ..` takes the second branch)
\* for a root-level page
getPage(dir, slug, section) ==
  Await(getMarkdownFile(dir, (IF slug = <<>> THEN S_INDEX ELSE slug) \o S_MD),
        LAMBDA file : Ok(pageOf(file.val.attrs, file.val.body, slug, section)))

\* attrs.taxonomies.tags.map(...)
tagOf(tag, slug) == [title |-> tag, slug |-> slug, path |-> S_TAGS \o slug]

tagsOf(tagStrings) ==
  Array([i \in 1..Len(tagStrings) |-> tagOf(tagStrings[i], slugify(tagStrings[i]))])

\* `...(attrs.taxonomies && { taxonomies: ... })`
WithTaxonomies(entity, attrs) ==
  IF HasField(attrs, "taxonomies")
  THEN entity @@ [taxonomies |-> [tags |-> tagsOf(attrs.taxonomies.tags)]]
  ELSE entity

\* slug.replace(YYYY_MM_DD_REGEX, "")
stripDate(slug) ==
  IF MatchAt(slug, 1, YYYY_MM_DD_REGEX)
  THEN SubSeq(slug, Len(YYYY_MM_DD_REGEX) + 1, Len(slug))
  ELSE slug

\* the slug of a post: the name without ".md", without the date prefix,
\* without its first hyphen
postSlug(name) ==
  ReplaceFirst(stripDate(ReplaceFirst(name, S_MD, <<>>)), <<"-">>, <<>>)

IsPostRecord(p) == HasField(p, "date")

\* The comparator of the sort reads b.date.toISOString() and then
\* a.date.toISOString(): TypeError on an entity without a date, RangeError
\* on an invalid date, "" when it returns.
readDateThrows(p) ==
  IF ~IsPostRecord(p) THEN "TypeError"
  ELSE IF ~p.date.valid THEN "RangeError"
  ELSE ""

\* the comparator with its operands exchanged: oldest first
compareByDateAsc(a, b) == localeCompare(toISOString(a.date), toISOString(b.date))

compareByDateDesc(a, b) == localeCompare(toISOString(b.date), toISOString(a.date))

\* pages.sort((a, b) => b.date.toISOString().localeCompare(a.date.toISOString()))
\* where the comparator can read every element
sortByDate(list) ==
  SortBy(list, [j \in 1..Len(list), i \in 1..Len(list) |-> compareByDateDesc(list[j], list[i])])

\* the error of the first element, in the order the sort reads them, that
\* the comparator cannot read; "" when it can read them all
firstThrow(list, order) ==
  IF \A k \in 1..Len(order) : readDateThrows(list[order[k]]) = "" THEN ""
  ELSE readDateThrows(list[order[
         CHOOSE k \in 1..Len(order) :
           /\ readDateThrows(list[order[k]]) # ""
           /\ \A l \in 1..(k - 1) : readDateThrows(list[order[l]]) = ""]])

\* pages.sort(...): an array of fewer than two elements is never compared.
\* Otherwise every element is compared at least once, the second element
\* being read first, then the first, then the others in order.
sortPages(list) ==
  IF Len(list) < 2 THEN Ok(list)
  ELSE IF firstThrow(list, <<2, 1>> \o Array([i \in 1..(Len(list) - 2) |-> i + 2])) # ""
  THEN Err(firstThrow(list, <<2, 1>> \o Array([i \in 1..(Len(list) - 2) |-> i + 2])))
  ELSE Ok(sortByDate(list))

\* the object the scan pushes for a post
postOf(attrs, body, name, postDate, sectionSlug) ==
  WithLinks(WithTaxonomies(
    [title |-> attrs.title,
     date |-> NewDate(postDate),
     slug |-> postSlug(name),
     path |-> sectionSlug \o <<"/">> \o postSlug(name),
     wordCount |-> getWordCount(body),
     section |-> sectionSlug],
    attrs), getLinks(body))

\* the body of the loop with a try/catch around it that goes on to the next
\* entry when a document fails to load
scanItemSkipping(acc, item, dir, sectionSlug) ==
  IF RegexSearch(item.name, SKIP_REGEX) THEN Ok(acc)
  ELSE IF MatchDate(item.name) # <<>>
  THEN IF ~(IF item.isDirectory
            THEN getMarkdownFile(item.entries, S_NESTED_INDEX)
            ELSE getMarkdownFile(dir, item.name)).ok
       THEN Ok(acc)
       ELSE Await(IF item.isDirectory
                  THEN getMarkdownFile(item.entries, S_NESTED_INDEX)
                  ELSE getMarkdownFile(dir, item.name),
                  LAMBDA file :
                    sortPages(Append(acc, postOf(file.val.attrs, file.val.body, item.name,
                                                 MatchDate(item.name)[1], sectionSlug))))
  ELSE IF item.isDirectory THEN Ok(acc)
  ELSE IF ~getPage(dir, ReplaceFirst(item.name, S_MD, <<>>), sectionSlug).ok THEN Ok(acc)
  ELSE Await(getPage(dir, ReplaceFirst(item.name, S_MD, <<>>), sectionSlug),
             LAMBDA page : Ok(Append(acc, page.val)))

\* the body of the loop of getPagesFromSection for one directory entry:
\* `acc` the array so far, the result the array after the entry, or the
\* error the entry made the scan throw
scanItem(acc, item, dir, sectionSlug) ==
  IF RegexSearch(item.name, SKIP_REGEX) THEN Ok(acc)
  ELSE IF MatchDate(item.name) # <<>>
  THEN Await(IF item.isDirectory
             THEN getMarkdownFile(item.entries, S_NESTED_INDEX)
             ELSE getMarkdownFile(dir, item.name),
             LAMBDA file :
               sortPages(Append(acc, postOf(file.val.attrs, file.val.body, item.name,
                                            MatchDate(item.name)[1], sectionSlug))))
  ELSE IF item.isDirectory THEN Ok(acc)
  ELSE Await(getPage(dir, ReplaceFirst(item.name, S_MD, <<>>), sectionSlug),
             LAMBDA page : Ok(Append(acc, page.val)))

\* the loop of getPagesFromSection from the array `acc` over the entries
\* `items` still to come
RECURSIVE scanFrom(_, _, _, _)
scanFrom(acc, items, dir, sectionSlug) ==
  IF items = <<>> THEN Ok(acc)
  ELSE Await(scanItem(acc, items[1], dir, sectionSlug),
             LAMBDA step : scanFrom(step.val, Tail(items), dir, sectionSlug))

getPagesFromSection(dir, sectionSlug) == scanFrom(<<>>, dir, dir, sectionSlug)

\* getSection and getSubSections, each calling the other
RECURSIVE getSection(_, _)
RECURSIVE subSectionsFrom(_, _, _)

\* the loop of getSubSections from the array `acc` over the entries `items`
subSectionsFrom(acc, items, parentSlug) ==
  IF items = <<>> THEN Ok(acc)
  ELSE IF items[1].isDirectory /\ MatchDate(items[1].name) = <<>>
  THEN Await(getSection(items[1].entries, parentSlug \o <<"/">> \o items[1].name),
             LAMBDA section : subSectionsFrom(Append(acc, section.val), Tail(items), parentSlug))
  ELSE subSectionsFrom(acc, Tail(items), parentSlug)

getSubSections(dir, parentSlug) ==
  Await(subSectionsFrom(<<>>, dir, parentSlug),
        LAMBDA sections : IF Len(sections.val) = 0 THEN OkNull ELSE sections)

\* `...(subSections && { subSections })`
WithSubSections(entity, subSections) ==
  IF ~IsNull(subSections) THEN entity @@ [subSections |-> subSections.val] ELSE entity

\* the object getSection returns
sectionOf(attrs, body, sectionName, pgs, subSections) ==
  WithLinks(WithSubSections(
    [title |-> attrs.title,
     path |-> IF Includes(sectionName, <<"/">>) THEN sectionName ELSE <<>>,
     slug |-> sectionName,
     wordCount |-> getWordCount(body),
     pages |-> pgs],
    subSections), getLinks(body))

getSection(dir, sectionName) ==
  Await(getPagesFromSection(dir, sectionName), LAMBDA pgs :
    Await(getSubSections(dir, sectionName), LAMBDA subSections :
      Await(getMarkdownFile(dir, S_INDEX_MD), LAMBDA file :
        Ok(sectionOf(file.val.attrs, file.val.body, sectionName, pgs.val, subSections)))))

----------------------------------------------------------------------------
(* The queries.  `root` is the content root: its entries in the order
   readDir yields them, every directory below it in its own order.  Within
   one query a directory that is read twice is enumerated in the same order
   both times. *)

\* Array.prototype.find: <<x>> for the first element x that passes, <<>>
\* for undefined
firstOf(hits) == IF hits = <<>> THEN <<>> ELSE <<hits[1]>>

\* `x ? x : null` of what find returned
orNull(found) == IF found # <<>> THEN Ok(found[1]) ELSE OkNull

\* Deno.readDir of the directory `name` of the content root
dirNamed(root, name) == SelectSeq(root, LAMBDA e : e.name = name /\ e.isDirectory)

readDirOf(root, name) ==
  IF dirNamed(root, name) = <<>> THEN Err("NotFound") ELSE Ok(dirNamed(root, name)[1].entries)

\* getSection(sectionName) for a section directly under the content root
getSectionOf(root, sectionName) ==
  Await(readDirOf(root, sectionName), LAMBDA dir : getSection(dir.val, sectionName))

getPost(root, slug) ==
  Await(getSectionOf(root, S_BLOG), LAMBDA blogSection :
    orNull(firstOf(SelectSeq(blogSection.val.pages, LAMBDA post : post.slug = slug))))

\* post.taxonomies && post.taxonomies.tags.find((tag) => tag.slug === tagSlug)
carriesTag(post, tagSlug) ==
  /\ HasField(post, "taxonomies")
  /\ firstOf(SelectSeq(post.taxonomies.tags, LAMBDA tag : tag.slug = tagSlug)) # <<>>

\* `postsByTag.length > 0 ? postsByTag : null`
nonEmptyOrNull(list) == IF Len(list) > 0 THEN Ok(list) ELSE OkNull

getPostsByTag(root, tagSlug) ==
  Await(getSectionOf(root, S_BLOG), LAMBDA blogSection :
    nonEmptyOrNull(SelectSeq(blogSection.val.pages, LAMBDA post : carriesTag(post, tagSlug))))

\* the index stub getAllPages pushes for a section or a subsection
indexStub(section) == [title |-> section.title, slug |-> section.slug, path |-> section.slug]

\* section.subSections?.flatMap(...), nothing being pushed when it is undefined
subSectionsPages(subs) == Flatten(Array([i \in 1..Len(subs) |-> subs[i].pages]))
subSectionIndices(subs) == Array([i \in 1..Len(subs) |-> indexStub(subs[i])])

\* what getAllPages pushes for one section of the content root
sectionPages(section) ==
  (IF HasField(section, "subSections")
   THEN subSectionsPages(section.subSections) \o subSectionIndices(section.subSections)
   ELSE <<>>)
  \o section.pages \o <<indexStub(section)>>

compareByTitle(a, b) == localeCompare(a.title, b.title)

\* list.sort((a, b) => a.title.localeCompare(b.title))
sortByTitle(list) ==
  SortBy(list, [j \in 1..Len(list), i \in 1..Len(list) |-> compareByTitle(list[j], list[i])])

\* the slug getAllPages gives a root-level file
rootSlug(name) == IF name = S_INDEX_MD THEN <<>> ELSE ReplaceFirst(name, S_MD, <<>>)

\* the loop of getAllPages from the array `acc` over the entries `items`
RECURSIVE allPagesFrom(_, _, _)
allPagesFrom(acc, items, root) ==
  IF items = <<>> THEN Ok(acc)
  ELSE IF items[1].name = S_DS_STORE THEN allPagesFrom(acc, Tail(items), root)
  ELSE IF items[1].isDirectory
  THEN Await(getSection(items[1].entries, items[1].name), LAMBDA section :
         allPagesFrom(acc \o sectionPages(section.val), Tail(items), root))
  ELSE Await(getPage(root, rootSlug(items[1].name), <<>>), LAMBDA page :
         allPagesFrom(Append(acc, page.val), Tail(items), root))

getAllPages(root) ==
  Await(allPagesFrom(<<>>, root, root), LAMBDA pgs : Ok(sortByTitle(pgs.val)))

\* JSON.stringify of a tag, {"title":"..","slug":"..","path":".."}, and
\* JSON.parse of such a text (no tag of the model holds a quote or a backslash)
JSONstringify(tag) ==
  <<"{", "\"">> \o <<"t","i","t","l","e">> \o <<"\"", ":", "\"">> \o tag.title
  \o <<"\"", ",", "\"">> \o <<"s","l","u","g">> \o <<"\"", ":", "\"">> \o tag.slug
  \o <<"\"", ",", "\"">> \o <<"p","a","t","h">> \o <<"\"", ":", "\"">> \o tag.path
  \o <<"\"", "}">>

tagOfParts(parts) == [title |-> parts[4], slug |-> parts[8], path |-> parts[12]]

JSONparse(str) == tagOfParts(Split(str, "\""))

\* posts.flatMap(...): the tags of the posts that have some
tagsNotUnique(posts) ==
  Flatten(Array([i \in 1..Len(posts) |->
            IF HasField(posts[i], "taxonomies") /\ Len(posts[i].taxonomies.tags) > 0
            THEN posts[i].taxonomies.tags ELSE <<>>]))

stringifyAll(tags) == Array([i \in 1..Len(tags) |-> JSONstringify(tags[i])])
parseAll(strs) == Array([i \in 1..Len(strs) |-> JSONparse(strs[i])])

\* the tags of the posts, deduplicated through their JSON texts, by title
uniqueTags(posts) ==
  sortByTitle(parseAll(Unique(stringifyAll(tagsNotUnique(posts)))))

getAllTags(root) ==
  Await(getSectionOf(root, S_BLOG), LAMBDA blogSection :
    Ok(uniqueTags(blogSection.val.pages)))

getTag(root, slug) ==
  Await(getAllTags(root), LAMBDA tags :
    orNull(firstOf(SelectSeq(tags.val, LAMBDA tag : tag.slug = slug))))

\* groupBy(items, key): the groups in the order their keys first occur, as
\* Object.keys lists the keys of the object it builds
\* (keys[i] is what the key function returns for items[i])
RECURSIVE itemsOfKey(_, _, _)
itemsOfKey(items, keys, key) ==
  IF items = <<>> THEN <<>>
  ELSE (IF keys[1] = key THEN <<items[1]>> ELSE <<>>)
       \o itemsOfKey(Tail(items), Tail(keys), key)

groupsOf(items, keys, distinct) ==
  Array([k \in 1..Len(distinct) |->
     [key |-> distinct[k], items |-> itemsOfKey(items, keys, distinct[k])]])

groupBy(items, keys) == groupsOf(items, keys, Unique(keys))

\* new URL(link).host: what lies between "://" and the next "/"
upTo(s, stop) == IF stop = 0 THEN s ELSE SubSeq(s, 1, stop - 1)

hostOf(rest) == toLowerCase(upTo(rest, IndexOf(rest, <<"/">>)))

urlHost(link) ==
  hostOf(SubSeq(link, IndexOf(link, S_SCHEME) + Len(S_SCHEME), Len(link)))

\* parse(host).domain: the public suffix of the host and the label before it
TwoLabelSuffixes == { <<S_CO, S_UK>> }

lastLabels(labels) ==
  IF Len(labels) >= 3 /\ SubSeq(labels, Len(labels) - 1, Len(labels)) \in TwoLabelSuffixes
  THEN SubSeq(labels, Len(labels) - 2, Len(labels))
  ELSE SubSeq(labels, Len(labels) - 1, Len(labels))

registrableDomain(host) == Join(lastLabels(Split(host, ".")), <<".">>)

domainOf(link) == registrableDomain(urlHost(link))

compareByCountDesc(a, b) == b.count - a.count

\* list.sort((a, b) => b.count - a.count)
sortByCount(list) ==
  SortBy(list, [j \in 1..Len(list), i \in 1..Len(list) |-> compareByCountDesc(list[j], list[i])])

\* (link) => parse(new URL(link).host).domain of every link
domainsOf(links) == Array([i \in 1..Len(links) |-> domainOf(links[i])])

\* page.links && page.links.<class> && page.links.<class>.length > 0
hasExternal(page) == HasField(page, "links") /\ Len(page.links.external) > 0
hasInternal(page) == HasField(page, "links") /\ Len(page.links.internal) > 0

externalsOf(withExternal) ==
  Flatten(Array([i \in 1..Len(withExternal) |-> withExternal[i].links.external]))
internalsOf(withInternal) ==
  Flatten(Array([i \in 1..Len(withInternal) |-> withInternal[i].links.internal]))

externalAnchors(allPages) == externalsOf(SelectSeq(allPages, hasExternal))
internalAnchors(allPages) == internalsOf(SelectSeq(allPages, hasInternal))

\* allPages.filter(...).flatMap((page) => `/${page.path}`)
pathsOf(sources) == Array([i \in 1..Len(sources) |-> <<"/">> \o sources[i].path])

\* the entry of one occurrence of an external href in the list of its domain
targetEntry(link, allPages) ==
  [targetUrl |-> link,
   sourceUrl |-> pathsOf(SelectSeq(allPages,
                   LAMBDA page : HasField(page, "links") /\ link \in Range(page.links.external)))]

externalEntries(groups, allPages) ==
  Array([g \in 1..Len(groups) |->
     [domain |-> groups[g].key,
      count |-> Len(groups[g].items),
      links |-> Array([i \in 1..Len(groups[g].items) |->
                   targetEntry(groups[g].items[i], allPages)])]])

internalEntries(groups) ==
  Array([g \in 1..Len(groups) |->
     [pathname |-> groups[g].key, count |-> Len(groups[g].items)]])

externalLinks(allPages) ==
  sortByCount(externalEntries(groupBy(externalAnchors(allPages),
                                      domainsOf(externalAnchors(allPages))), allPages))

internalLinks(allPages) ==
  sortByCount(internalEntries(groupBy(internalAnchors(allPages), internalAnchors(allPages))))

linksOf(internal, external) ==
  [count |-> Len(internal) + Len(external), internal |-> internal, external |-> external]

getAllLinks(root) ==
  Await(getAllPages(root), LAMBDA allPages :
    Ok(linksOf(internalLinks(allPages.val), externalLinks(allPages.val))))

\* the decimal numeral of a natural number (Number.prototype.toString)
RECURSIVE Numeral(_)
Numeral(n) == IF n < 10 THEN <<DigitChars[n + 1]>>
              ELSE Numeral(n \div 10) \o <<DigitChars[(n % 10) + 1]>>

\* the digits `ds` in groups of two from the right, joined by commas
RECURSIVE groupsOfTwo(_)
groupsOfTwo(ds) ==
  IF Len(ds) <= 2 THEN ds
  ELSE groupsOfTwo(SubSeq(ds, 1, Len(ds) - 2)) \o <<",">> \o SubSeq(ds, Len(ds) - 1, Len(ds))

\* the digits of a number grouped as the locale en-IN groups them: the last
\* three digits form a group, the digits before them groups of two
groupEnIN(ds) ==
  IF Len(ds) <= 3 THEN ds
  ELSE groupsOfTwo(SubSeq(ds, 1, Len(ds) - 3)) \o <<",">> \o SubSeq(ds, Len(ds) - 2, Len(ds))

\* new Intl.NumberFormat("en-IN").format(n)
formatEnIN(n) == groupEnIN(Numeral(n))

\* The time zones of the process that the model tells apart: at or east of
\* UTC, midnight UTC falls on the same local day; west of it, on the day before.
TimeZones == {"UTC", "west"}

\* post.date.getFullYear().toString(): the year of the local day
getFullYear(date, tz) ==
  IF ~date.valid THEN S_NAN
  ELSE IF tz = "west" /\ date.m = 1 /\ date.d = 1 THEN Numeral(date.y - 1)
  ELSE Numeral(date.y)

\* item.wordCount ?? 0
wordCountOrZero(item) == IF HasField(item, "wordCount") THEN item.wordCount ELSE 0

RECURSIVE sumWords(_)
sumWords(items) == IF items = <<>> THEN 0
                   ELSE wordCountOrZero(items[1]) + sumWords(Tail(items))

\* (post) => post.date.getFullYear().toString() of every post
yearsOf(posts, tz) == Array([i \in 1..Len(posts) |-> getFullYear(posts[i].date, tz)])

\* the object getGlobalStats returns
statsOf(allPages, blogPages, tags, links, tz) ==
  [blogByYear |-> groupBy(blogPages, yearsOf(blogPages, tz)),
   posts |-> Len(blogPages),
   words |-> formatEnIN(sumWords(allPages)),
   tags |-> Len(tags),
   links |-> [internal |-> links.internal, external |-> links.external]]

\* groupBy reads post.date.getFullYear() of every element of blog.pages:
\* TypeError on one without a date
groupByYearThrows(blogPages) == \E i \in 1..Len(blogPages) : ~IsPostRecord(blogPages[i])

getGlobalStats(root, tz) ==
  Await(getAllPages(root), LAMBDA allPages :
    Await(getSectionOf(root, S_BLOG), LAMBDA blogSection :
      Await(getAllTags(root), LAMBDA tags :
        IF groupByYearThrows(blogSection.val.pages) THEN Err("TypeError")
        ELSE Await(getAllLinks(root), LAMBDA links :
               Ok(statsOf(allPages.val, blogSection.val.pages, tags.val, links.val, tz))))))

----------------------------------------------------------------------------
(* The content trees the model enumerates *)

N_HELLO == <<"2","0","2","4","-","0","3","-","0","1","-","h","e","l","l","o","-","w","o","r","l","d",".","m","d">>
N_UNDERSCORE == <<"2","0","2","4","-","0","3","-","0","1","_","h","e","l","l","o","-","w","o","r","l","d",".","m","d">>
N_OLD == <<"2","0","2","3","-","1","2","-","3","1","-","o","l","d",".","m","d">>
N_LEAP == <<"2","0","2","4","-","0","2","-","3","0","-","l","e","a","p",".","m","d">>
N_BADDATE == <<"2","0","2","4","-","1","3","-","4","5","-","x",".","m","d">>
N_ABOUT == <<"a","b","o","u","t",".","m","d">>
N_NESTED == <<"2","0","2","5","-","0","1","-","0","1","-","n","e","s","t","e","d">>
N_MYINDEX == <<"m","y","_","i","n","d","e","x",".","m","d">>
N_BROKEN == <<"2","0","2","2","-","0","1","-","0","1","-","b","a","d",".","m","d">>
N_NOTES == <<"n","o","t","e","s">>
N_SUB == <<"s","u","b">>
N_DEEP == <<"d","e","e","p">>
N_NOTE == <<"n","1",".","m","d">>
N_SUBNOTE == <<"s","1",".","m","d">>
N_DEEPNOTE == <<"d","1",".","m","d">>
N_DRAFT == <<"d","r","a","f","t",".","m","d">>
N_EMPTYPOST == <<"2","0","2","1","-","0","1","-","0","1","-","e","m","p","t","y">>
N_DRAFTS == <<"d","r","a","f","t","s">>
H_ANCHOR == <<"#","a","n","c","h","o","r">>
H_MAIL == <<"m","a","i","l","t","o",":","a","@","b",".","c","o","m">>
H_INTERNAL == <<"/","i","n","t","e","r","n","a","l">>
H_EXT == <<"h","t","t","p","s",":","/","/","e","x","t",".","c","o","m">>
H_SHARE == <<"/","s","?","m","a","i","l","t","o",":","a">>
H_WWW == <<"h","t","t","p","s",":","/","/","w","w","w",".","e","x","a","m","p","l","e",".","c","o","m","/","a">>
H_BLOGHOST == <<"h","t","t","p","s",":","/","/","b","l","o","g",".","e","x","a","m","p","l","e",".","c","o","m","/","b">>
H_ABOUT == <<"/","b","l","o","g","/","a","b","o","u","t">>
T_HELLO == <<"H","e","l","l","o">>
T_OLD == <<"O","l","d">>
T_LEAP == <<"L","e","a","p">>
T_X == <<"X">>
T_ABOUT == <<"A","b","o","u","t">>
T_NESTED == <<"N","e","s","t","e","d">>
T_MINE == <<"M","i","n","e">>
T_BLOG == <<"B","l","o","g">>
T_HOME == <<"H","o","m","e">>
T_NOTES == <<"N","o","t","e","s">>
T_NOTE == <<"N","o","t","e">>
T_SUB == <<"S","u","b">>
T_SUBNOTE == <<"S","u","b","n","o","t","e">>
T_DEEP == <<"D","e","e","p">>
T_DEEPNOTE == <<"D","e","e","p","n","o","t","e">>
G_DENO_UPPER == <<"D","e","n","o">>
G_DENO == <<"d","e","n","o">>
G_WEB == <<"w","e","b">>

\* tokens of marked.lexer: a link holds its text as tokens, a paragraph and
\* a list item hold inline tokens, a list holds items
Text == [type |-> "text"]
LinkTok(href) == [type |-> "link", href |-> href, tokens |-> <<Text>>]
Para(tokens) == [type |-> "paragraph", tokens |-> tokens]
ListItem(tokens) == [type |-> "list_item", tokens |-> tokens]
ListOf(items) == [type |-> "list", items |-> items]
\* a reference definition as tokens.links holds it
RefDef(href) == [href |-> href]

Body(tokens, refs, words) == [tokens |-> tokens, links |-> refs, words |-> words]
Titled(title) == [title |-> title]
Tagged(title, tags) == [title |-> title, taxonomies |-> [tags |-> tags]]

\* content/blog/_index.md
BlogIndex ==
  File(S_INDEX_MD, Doc(Titled(T_BLOG), Body(<<Para(<<LinkTok(H_INTERNAL)>>)>>, <<>>, 50)))

\* the entries the blog directory is drawn from
BlogPool ==
  << File(N_HELLO, Doc(Tagged(T_HELLO, <<G_DENO_UPPER, G_WEB>>),
          Body(<<Para(<<Text, LinkTok(H_ANCHOR), LinkTok(H_MAIL),
                        LinkTok(H_INTERNAL), LinkTok(H_EXT)>>)>>, <<>>, 100))),
     File(N_UNDERSCORE, Doc(Tagged(T_HELLO, <<G_DENO>>),
          Body(<<ListOf(<<ListItem(<<LinkTok(H_WWW)>>)>>)>>, <<RefDef(H_WWW)>>, 200))),
     File(N_OLD, Doc(Titled(T_OLD),
          Body(<<Para(<<LinkTok(H_BLOGHOST), LinkTok(H_WWW), LinkTok(H_SHARE)>>)>>, <<>>, 300))),
     File(N_LEAP, Doc(Tagged(T_LEAP, <<>>), Body(<<Para(<<Text>>)>>, <<>>, 10))),
     File(N_BADDATE, Doc(Titled(T_X), Body(<<Para(<<LinkTok(H_ANCHOR)>>)>>, <<>>, 5))),
     File(N_ABOUT, Doc(Titled(T_ABOUT), Body(<<Para(<<LinkTok(H_INTERNAL)>>)>>, <<>>, 20))),
     Dir(N_NESTED, << File(S_NESTED_INDEX, Doc(Tagged(T_NESTED, <<G_WEB>>),
          Body(<<Para(<<LinkTok(H_EXT)>>)>>, <<>>, 30))) >>),
     File(N_MYINDEX, Doc(Titled(T_MINE), Body(<<>>, <<>>, 7))),
     File(N_BROKEN, BadDoc),
     File(N_DRAFT, BadDoc),
     Dir(N_EMPTYPOST, <<>>),
     Dir(N_DRAFTS, <<>>) >>

\* the entries the blog directory is drawn from: all but the last three
PoolIds == 1..9

\* the entries it is drawn from where loads fail: a page and a nested post
\* that load, and a post and a page that do not parse, a nested post without
\* index.md and a subsection without _index.md
FailIds == {6, 7, 9, 10, 11, 12}

\* the blog directory in the order `order` of its entries; _index.md, which
\* every scan skips wherever it comes, is put first
blogDir(order) ==
  Dir(S_BLOG, <<BlogIndex>> \o Array([i \in 1..Len(order) |-> BlogPool[order[i]]]))

\* content/notes with a subsection and a subsection of that subsection
NotesDir ==
  Dir(N_NOTES,
    << File(S_INDEX_MD, Doc(Titled(T_NOTES), Body(<<Para(<<LinkTok(H_INTERNAL)>>)>>, <<>>, 40))),
       File(N_NOTE, Doc(Titled(T_NOTE), Body(<<Para(<<LinkTok(H_INTERNAL), LinkTok(H_WWW)>>)>>, <<>>, 11))),
       Dir(N_SUB,
         << File(S_INDEX_MD, Doc(Titled(T_SUB), Body(<<>>, <<>>, 12))),
            File(N_SUBNOTE, Doc(Titled(T_SUBNOTE), Body(<<Para(<<LinkTok(H_EXT)>>)>>, <<>>, 13))),
            Dir(N_DEEP,
              << File(S_INDEX_MD, Doc(Titled(T_DEEP), Body(<<>>, <<>>, 14))),
                 File(N_DEEPNOTE, Doc(Titled(T_DEEPNOTE),
                      Body(<<Para(<<LinkTok(H_ABOUT)>>)>>, <<>>, 15))) >>) >>) >>)

\* the content roots: the blog alone; the blog beside root-level pages; the
\* blog beside a section with nested subsections
Sites == {"blog", "pages", "nested"}

rootOf(s, order) ==
  CASE s = "blog"   -> << blogDir(order) >>
    [] s = "pages"  -> << File(S_INDEX_MD, Doc(Titled(T_HOME), Body(<<Para(<<LinkTok(H_ABOUT)>>)>>, <<>>, 60))),
                          File(S_DS_STORE, BadDoc),
                          File(N_ABOUT, Doc(Titled(T_ABOUT), Body(<<Para(<<LinkTok(H_WWW)>>)>>, <<>>, 70))),
                          blogDir(order) >>
    [] s = "nested" -> << blogDir(order), NotesDir >>

----------------------------------------------------------------------------
(* The state machine.  A behaviour is one call: either the section scan of
   the blog, entry by entry in any order, or one query, which walks the tree
   from scratch in an enumeration order of its own.  Calls share no state, so
   a behaviour holds one. *)

\* entry 0 of the blog directory is its _index.md
blogEntry(i) == IF i = 0 THEN BlogIndex ELSE BlogPool[i]

\* the blog directory for the lookups of a running scan
blogEntries == Array([i \in 1..Len(BlogPool) + 1 |-> blogEntry(i - 1)])

\* the slugs and tag slugs the lookups are called with
PostSlugs == { postSlug(N_HELLO), postSlug(N_UNDERSCORE), postSlug(N_ABOUT) }
TagSlugs == { slugify(G_DENO_UPPER), slugify(G_WEB), slugify(T_X) }

\* no query has been made
NoResult == [op |-> "none"]

Init ==
  /\ blog \in { b \in SUBSET PoolIds : Cardinality(b) <= MaxEntries }
  /\ site \in Sites
  /\ pc = "idle"
  /\ todo = {}
  /\ pages = <<>>
  /\ error = ""
  /\ result = NoResult
  /\ again = NoResult

\* getPagesFromSection("blog") is called
StartScan ==
  /\ pc = "idle" /\ result.op = "none"
  /\ pc' = "scan"
  /\ todo' = blog \cup {0}
  /\ pages' = <<>>
  /\ UNCHANGED <<blog, site, error, result, again>>

\* one turn of the loop: readDir yields the entry i, and the body of the
\* loop leaves `step`
Turn(i, step) ==
  IF step.ok
  THEN /\ pages' = step.val
       /\ todo' = todo \ {i}
       /\ UNCHANGED <<pc, error>>
  ELSE /\ pc' = "threw"
       /\ error' = step.err
       /\ pages' = <<>>
       /\ todo' = {}

ScanStep ==
  /\ pc = "scan"
  /\ \E i \in todo : Turn(i, scanItem(pages, blogEntry(i), blogEntries, S_BLOG))
  /\ UNCHANGED <<blog, site, result, again>>

\* the directory is exhausted: the scan returns `pages`
ScanReturn ==
  /\ pc = "scan" /\ todo = {}
  /\ pc' = "returned"
  /\ UNCHANGED <<blog, site, todo, pages, error, result, again>>

\* the settled result of a query
Settled(op, arg, order, tz, out) ==
  [op |-> op, arg |-> arg, order |-> order, tz |-> tz, out |-> out]

Query(op, arg, order, tz, out) ==
  /\ pc = "idle" /\ result.op = "none"
  /\ result' = Settled(op, arg, order, tz, out)
  /\ UNCHANGED <<blog, site, pc, todo, pages, error, again>>

GetSection ==
  \E order \in Perms(blog) :
    Query("getSection", S_BLOG, order, "UTC", getSectionOf(rootOf(site, order), S_BLOG))

GetPost ==
  \E order \in Perms(blog) : \E slug \in PostSlugs :
    Query("getPost", slug, order, "UTC", getPost(rootOf(site, order), slug))

GetPostsByTag ==
  \E order \in Perms(blog) : \E tagSlug \in TagSlugs :
    Query("getPostsByTag", tagSlug, order, "UTC", getPostsByTag(rootOf(site, order), tagSlug))

GetAllTags ==
  \E order \in Perms(blog) :
    Query("getAllTags", <<>>, order, "UTC", getAllTags(rootOf(site, order)))

GetTag ==
  \E order \in Perms(blog) : \E slug \in TagSlugs :
    Query("getTag", slug, order, "UTC", getTag(rootOf(site, order), slug))

GetAllPages ==
  \E order \in Perms(blog) :
    Query("getAllPages", <<>>, order, "UTC", getAllPages(rootOf(site, order)))

GetAllLinks ==
  \E order \in Perms(blog) :
    Query("getAllLinks", <<>>, order, "UTC", getAllLinks(rootOf(site, order)))

GetGlobalStats ==
  \E order \in Perms(blog) : \E tz \in TimeZones :
    Query("getGlobalStats", <<>>, order, tz, getGlobalStats(rootOf(site, order), tz))

Next ==
  \/ StartScan
  \/ ScanStep
  \/ ScanReturn
  \/ GetSection
  \/ GetPost
  \/ GetPostsByTag
  \/ GetAllTags
  \/ GetTag
  \/ GetAllPages
  \/ GetAllLinks
  \/ GetGlobalStats

Spec == Init /\ [][Next]_vars

\* the section scan alone: step by step, and as getSection returns it
ScanNext ==
  \/ StartScan
  \/ ScanStep
  \/ ScanReturn
  \/ GetSection

SpecScan == Init /\ [][ScanNext]_vars

\* the scan and the queries over directories with documents that fail to load
InitFail ==
  /\ blog \in { b \in SUBSET FailIds : Cardinality(b) <= MaxEntries }
  /\ site \in Sites
  /\ pc = "idle"
  /\ todo = {}
  /\ pages = <<>>
  /\ error = ""
  /\ result = NoResult
  /\ again = NoResult

SpecFail == InitFail /\ [][Next]_vars

\* the exported query `op` called with `arg` on the content tree `root`
call(op, arg, root, tz) ==
  CASE op = "getSection"     -> getSectionOf(root, arg)
    [] op = "getPost"        -> getPost(root, arg)
    [] op = "getPostsByTag"  -> getPostsByTag(root, arg)
    [] op = "getAllTags"     -> getAllTags(root)
    [] op = "getTag"         -> getTag(root, arg)
    [] op = "getAllPages"    -> getAllPages(root)
    [] op = "getAllLinks"    -> getAllLinks(root)
    [] op = "getGlobalStats" -> getGlobalStats(root, tz)

\* the query that settled is called once more on the unchanged tree; readDir
\* enumerates the entries in an order of its own
Repeat ==
  /\ result.op # "none" /\ again.op = "none"
  /\ \E order \in Perms(blog) :
       again' = Settled(result.op, result.arg, order, result.tz,
                        call(result.op, result.arg, rootOf(site, order), result.tz))
  /\ UNCHANGED <<blog, site, pc, todo, pages, error, result>>

\* a query and its repetition, on a blog of at most MaxRepeated entries
InitTwice == Init /\ Cardinality(blog) <= MaxRepeated

TwiceNext ==
  \/ GetSection
  \/ GetPost
  \/ GetPostsByTag
  \/ GetAllTags
  \/ GetTag
  \/ GetAllPages
  \/ GetAllLinks
  \/ GetGlobalStats
  \/ Repeat

SpecTwice == InitTwice /\ [][TwiceNext]_vars

----------------------------------------------------------------------------
(* What the properties below are stated with: the documents of a tree, read
   off the tree itself *)

\* the name of a file without its extension
stemOf(name) ==
  IF Len(name) >= 3 /\ SubSeq(name, Len(name) - 2, Len(name)) = S_MD
  THEN SubSeq(name, 1, Len(name) - 3)
  ELSE name

\* a directory with an _index.md is a section
isSectionDir(e) == e.isDirectory /\ \E k \in 1..Len(e.entries) : e.entries[k].name = S_INDEX_MD

\* the files of a tree at every depth that parse
RECURSIVE allFiles(_)
allFiles(entries) ==
  IF entries = <<>> THEN <<>>
  ELSE (IF entries[1].isDirectory THEN allFiles(entries[1].entries)
        ELSE IF entries[1].doc.parses THEN <<entries[1]>> ELSE <<>>)
       \o allFiles(Tail(entries))

\* the files of a tree at every depth that are pages or posts: every file
\* that parses but the index document of a section
RECURSIVE pageFiles(_, _)
pageFiles(entries, inSection) ==
  IF entries = <<>> THEN <<>>
  ELSE (IF entries[1].isDirectory THEN pageFiles(entries[1].entries, isSectionDir(entries[1]))
        ELSE IF entries[1].doc.parses /\ ~(inSection /\ entries[1].name = S_INDEX_MD)
        THEN <<entries[1]>> ELSE <<>>)
       \o pageFiles(Tail(entries), inSection)

\* the paths of the sections of a tree at every depth
RECURSIVE sectionPaths(_, _)
sectionPaths(entries, prefix) ==
  IF entries = <<>> THEN {}
  ELSE (IF isSectionDir(entries[1])
        THEN {prefix \o entries[1].name}
             \cup sectionPaths(entries[1].entries, prefix \o entries[1].name \o <<"/">>)
        ELSE {})
       \cup sectionPaths(Tail(entries), prefix)

\* the documents of the model differ in their word counts: the entry of the
\* scanned blog directory, or of its nested post directory, an entity was built from
blogSource(p) ==
  CHOOSE e \in Range(blogEntries) :
    \E f \in Range(allFiles(<<e>>)) : f.doc.body.words = p.wordCount

bodyOf(p) ==
  (CHOOSE f \in Range(allFiles(blogEntries)) : f.doc.body.words = p.wordCount).doc.body

hrefsOf(body) == { l.href : l \in Range(collectLinks(body)) }

NoRepeats(s) == \A i, j \in 1..Len(s) : s[i] = s[j] => i = j

\* the blog section of the tree a query walked
blogOf(r) == getSectionOf(rootOf(site, r.order), S_BLOG)

RECURSIVE SumSeq(_)
SumSeq(ns) == IF ns = <<>> THEN 0 ELSE ns[1] + SumSeq(Tail(ns))

----------------------------------------------------------------------------
(* Properties *)

PostsNonIncreasing(list) ==
  \A i, j \in 1..Len(list) :
    i < j /\ IsPostRecord(list[i]) /\ IsPostRecord(list[j])
    => /\ list[i].date.valid /\ list[j].date.valid
       /\ DateGeq(list[i].date, list[j].date)

\* C1: after every insertion of the section scan, and in the list getSection
\* returns, whatever the order of the directory's entries, a post that
\* comes before another post has a date at or after the other's.
C1_PostsNewestFirst ==
  /\ pc \in {"scan", "returned"} => PostsNonIncreasing(pages)
  /\ result.op = "getSection" /\ result.out.ok => PostsNonIncreasing(result.out.val.pages)

\* C1, its case: the directory yields the older post, then the newer one,
\* then an undated page, and getSection returns the three
C1_OlderPostEnumeratedFirst ==
  /\ result.op = "getSection" /\ result.out.ok
  /\ Len(result.order) = 3
  /\ BlogPool[result.order[1]].name = N_OLD
  /\ BlogPool[result.order[2]].name = N_HELLO
  /\ BlogPool[result.order[3]].name = N_ABOUT
  /\ Len(result.out.val.pages) = 3

\* C2: no two entries of the list getAllTags returns have the same slug.
C2_TagSlugsDistinct ==
  result.op = "getAllTags" /\ result.out.ok
  => \A i, j \in 1..Len(result.out.val) :
       result.out.val[i].slug = result.out.val[j].slug => i = j

\* C3: of the hrefs collected from the body of a scanned document, one that
\* starts with "mailto:" or with "#" is in neither list, any other that
\* starts with "/" is in internal, and every other one is in external; the
\* body with #anchor, mailto:a@b.com, /internal and https://ext.com gives
\* internal = [/internal] and external = [https://ext.com].
C3_LinksClassifiedByPrefix ==
  pc \in {"scan", "returned"}
  => \A k \in 1..Len(pages) :
       /\ \A h \in hrefsOf(bodyOf(pages[k])) :
            /\ h \in Range(pages[k].links.internal)
               <=> ~StartsWith(h, S_MAILTO) /\ ~StartsWith(h, <<"#">>) /\ StartsWith(h, <<"/">>)
            /\ h \in Range(pages[k].links.external)
               <=> ~StartsWith(h, S_MAILTO) /\ ~StartsWith(h, <<"#">>) /\ ~StartsWith(h, <<"/">>)
       /\ hrefsOf(bodyOf(pages[k])) = {H_ANCHOR, H_MAIL, H_INTERNAL, H_EXT}
          => pages[k].links = [internal |-> <<H_INTERNAL>>, external |-> <<H_EXT>>]

\* C4: an entity built from a body that yields no internal and no external
\* link has no links field; any other has one, neither list of which
\* holds a target twice.
C4_LinksOmittedWhenEmpty ==
  pc \in {"scan", "returned"}
  => \A k \in 1..Len(pages) :
       IF getLinks(bodyOf(pages[k])) = [internal |-> <<>>, external |-> <<>>]
       THEN ~HasField(pages[k], "links")
       ELSE /\ HasField(pages[k], "links")
            /\ NoRepeats(pages[k].links.internal)
            /\ NoRepeats(pages[k].links.external)

\* C5: a post built from an entry named with a YYYY-MM-DD prefix has that
\* day as its date, and as its slug the name without ".md", without the ten
\* characters of the prefix and without the one character after them.
C5_DateAndSlugFromName ==
  pc \in {"scan", "returned"}
  => \A k \in 1..Len(pages) :
       IsPostRecord(pages[k])
       => /\ pages[k].date.valid
          /\ SubSeq(toISOString(pages[k].date), 1, 10) = SubSeq(blogSource(pages[k]).name, 1, 10)
          /\ pages[k].slug = SubSeq(stemOf(blogSource(pages[k]).name), 12,
                                    Len(stemOf(blogSource(pages[k]).name)))

\* the entries of a getAllPages list built from the document of `words` words
builtFrom(list, words) ==
  { k \in 1..Len(list) : HasField(list[k], "wordCount") /\ list[k].wordCount = words }

\* the index stubs of a getAllPages list for the section of path `path`
stubsOf(list, path) ==
  { k \in 1..Len(list) : ~HasField(list[k], "wordCount") /\ list[k].slug = path }

\* C6: the list getAllPages returns holds, once each, every page and post
\* of the tree at every depth and an index stub for every section at every
\* depth, in the order of their titles.
C6_AllPagesAtEveryDepth ==
  result.op = "getAllPages" /\ result.out.ok
  => /\ \A f \in Range(pageFiles(rootOf(site, result.order), FALSE)) :
          Cardinality(builtFrom(result.out.val, f.doc.body.words)) = 1
     /\ \A path \in sectionPaths(rootOf(site, result.order), <<>>) :
          Cardinality(stubsOf(result.out.val, path)) = 1
     /\ \A k \in 1..(Len(result.out.val) - 1) :
          compareByTitle(result.out.val[k], result.out.val[k + 1]) <= 0

\* the posts of a list: its dated entries
postsOf(list) == SelectSeq(list, IsPostRecord)

\* C7: when the blog section loads, getPost, getPostsByTag and getTag raise
\* no error; getPost returns null when no post has the slug and else a post
\* with the slug; getPostsByTag returns null when no post carries the tag
\* and else the posts that carry it, in the order of the section; getTag
\* returns null when no tag has the slug and else a tag with the slug.
C7_LookupsReturnNullWhenAbsent ==
  /\ result.op = "getPost" /\ blogOf(result).ok
     => /\ result.out.ok
        /\ IsNull(result.out)
           <=> ~\E post \in Range(postsOf(blogOf(result).val.pages)) : post.slug = result.arg
        /\ ~IsNull(result.out)
           => IsPostRecord(result.out.val) /\ result.out.val.slug = result.arg
  /\ result.op = "getPostsByTag" /\ blogOf(result).ok
     => /\ result.out.ok
        /\ IsNull(result.out)
           <=> ~\E post \in Range(blogOf(result).val.pages) : carriesTag(post, result.arg)
        /\ ~IsNull(result.out)
           => result.out.val = SelectSeq(blogOf(result).val.pages,
                                         LAMBDA post : carriesTag(post, result.arg))
  /\ result.op = "getTag" /\ blogOf(result).ok
     => /\ result.out.ok
        /\ IsNull(result.out)
           <=> ~\E post \in Range(blogOf(result).val.pages) : carriesTag(post, result.arg)
        /\ ~IsNull(result.out) => result.out.val.slug = result.arg

\* the occurrences of an external href of the domain `domain` on the pages of a list
occurrencesIn(list, domain) ==
  SumSeq(Array([k \in 1..Len(list) |->
     IF hasExternal(list[k])
     THEN Cardinality({ i \in 1..Len(list[k].links.external) :
                          domainOf(list[k].links.external[i]) = domain })
     ELSE 0]))

\* the paths of the pages of a list that link to the external href `link`
sourcesIn(list, link) ==
  { <<"/">> \o list[k].path : k \in { i \in 1..Len(list) :
       hasExternal(list[i]) /\ link \in Range(list[i].links.external) } }

\* C8: every domain has one entry in the external list of getAllLinks; its
\* count is the number of occurrences of an href of the domain on a page,
\* and its links hold one entry for every target URL of the domain, no
\* target twice, with the paths of all the pages that link to the target.
C8_OneEntryPerTargetUrl ==
  result.op = "getAllLinks" /\ result.out.ok
  => /\ NoRepeats(Array([g \in 1..Len(result.out.val.external) |->
                     result.out.val.external[g].domain]))
     /\ \A g \in Range(result.out.val.external) :
          /\ g.count = occurrencesIn(getAllPages(rootOf(site, result.order)).val, g.domain)
          /\ NoRepeats(Array([i \in 1..Len(g.links) |-> g.links[i].targetUrl]))
          /\ \A l \in Range(g.links) :
               /\ domainOf(l.targetUrl) = g.domain
               /\ Range(l.sourceUrl) = sourcesIn(getAllPages(rootOf(site, result.order)).val,
                                                 l.targetUrl)

\* the documents of a tree, the index documents of its sections among them,
\* whose body links to `path`
linkingTo(root, path) ==
  { k \in 1..Len(allFiles(root)) : path \in hrefsOf(allFiles(root)[k].doc.body) }

\* C9: the count of an internal pathname in getAllLinks is the number of
\* documents of the tree that link to it, and both lists are in the order
\* of their counts, the greatest first.
C9_InternalCountsEveryDocument ==
  result.op = "getAllLinks" /\ result.out.ok
  => /\ \A e \in Range(result.out.val.internal) :
          e.count = Cardinality(linkingTo(rootOf(site, result.order), e.pathname))
     /\ \A k \in 1..(Len(result.out.val.internal) - 1) :
          result.out.val.internal[k].count >= result.out.val.internal[k + 1].count
     /\ \A k \in 1..(Len(result.out.val.external) - 1) :
          result.out.val.external[k].count >= result.out.val.external[k + 1].count

\* the words of all the documents of a tree
wordsOf(root) ==
  SumSeq(Array([k \in 1..Len(allFiles(root)) |-> allFiles(root)[k].doc.body.words]))

\* C10: when the blog section loads, getGlobalStats reports the words of
\* all the documents of the tree, the number of dated posts of the blog, the
\* number of tags of getAllTags, and every post of the blog in the bucket of
\* the year of its date and in no other.
C10_StatsCountPostsAndWords ==
  result.op = "getGlobalStats" /\ blogOf(result).ok
  => /\ result.out.ok
     /\ result.out.val.words = formatEnIN(wordsOf(rootOf(site, result.order)))
     /\ result.out.val.posts = Len(postsOf(blogOf(result).val.pages))
     /\ result.out.val.tags = Len(getAllTags(rootOf(site, result.order)).val)
     /\ \A post \in Range(postsOf(blogOf(result).val.pages)) :
          /\ \E bucket \in Range(result.out.val.blogByYear) : bucket.key = Numeral(post.date.y)
          /\ \A bucket \in Range(result.out.val.blogByYear) :
               post \in Range(bucket.items) <=> bucket.key = Numeral(post.date.y)

\* C11: a query called twice on an unchanged content tree settles to the
\* same value both times, list order included, whatever order the directory
\* entries are enumerated in on each call.
C11_SameResultOnRepeat ==
  again.op # "none" => again.out = result.out

\* the error that loading `name` from `entries` raises, "" when it loads
docError(entries, name) ==
  IF ~\E k \in 1..Len(entries) : entries[k].name = name /\ ~entries[k].isDirectory
  THEN "NotFound"
  ELSE IF \E k \in 1..Len(entries) :
            entries[k].name = name /\ ~entries[k].isDirectory /\ ~entries[k].doc.parses
  THEN "ParseError"
  ELSE ""

\* a directory that is a subsection, not a nested post
isSubSection(e) == e.isDirectory /\ MatchDate(e.name) = <<>>

\* the error that loading the document of the blog entry `e` raises: the
\* file itself, a nested post's index.md, a subsection's _index.md
loadError(e) ==
  IF ~e.isDirectory THEN (IF e.doc.parses THEN "" ELSE "ParseError")
  ELSE IF isSubSection(e) THEN docError(e.entries, S_INDEX_MD)
  ELSE docError(e.entries, S_NESTED_INDEX)

\* the errors the sort of the scan throws
SortErrors == {"TypeError", "RangeError"}

\* the first load that fails when the blog is walked in the order `order`:
\* the scan of its entries first, its subsections after it
failingIn(order, sub) ==
  SelectSeq(order, LAMBDA i : loadError(blogEntry(i)) # "" /\ isSubSection(blogEntry(i)) = sub)

firstLoadError(order) ==
  IF failingIn(order, FALSE) # <<>> THEN loadError(blogEntry(failingIn(order, FALSE)[1]))
  ELSE IF failingIn(order, TRUE) # <<>> THEN loadError(blogEntry(failingIn(order, TRUE)[1]))
  ELSE ""

\* C12: when the load of a document reached by a traversal fails, the scan,
\* getSection and every query built on it fail with the error of that load:
\* a scan that goes on or returns has loaded every entry it has passed, a
\* query that returns a result has loaded every document of the section, and
\* an error other than one thrown by the sort is the error of the first load
\* that failed.
C12_LoadFailurePropagates ==
  /\ pc \in {"scan", "returned"} =>
       \A i \in blog \ todo : isSubSection(blogEntry(i)) \/ loadError(blogEntry(i)) = ""
  /\ pc = "threw" =>
       error \in SortErrors \cup
                 { loadError(blogEntry(i)) : i \in { j \in blog : ~isSubSection(blogEntry(j)) } }
  /\ result.op # "none" =>
       /\ result.out.ok => \A i \in blog : loadError(blogEntry(i)) = ""
       /\ ~result.out.ok =>
            result.out.err \in SortErrors \cup {firstLoadError(result.order)}
       /\ firstLoadError(result.order) # "" => ~result.out.ok

\* getAllPages fails with NotFound over a blog whose only failing document
\* is the missing _index.md of its subsection drafts
C12_SubsectionIndexMissing ==
  /\ result.op = "getAllPages"
  /\ \E i \in blog : blogEntry(i).name = N_DRAFTS
  /\ \A i \in blog : blogEntry(i).name # N_DRAFTS => loadError(blogEntry(i)) = ""
  /\ Cardinality(blog) > 1
  /\ result.out = Err("NotFound")

\* a name of the form _index.<lang>.md, <lang> a language code of letters
isLanguageIndex(name) ==
  /\ Len(name) > Len(S_INDEX) + 1 + Len(S_MD)
  /\ SubSeq(name, 1, Len(S_INDEX) + 1) = S_INDEX \o <<".">>
  /\ SubSeq(name, Len(name) - Len(S_MD) + 1, Len(name)) = S_MD
  /\ \A k \in (Len(S_INDEX) + 2)..(Len(name) - Len(S_MD)) : name[k] \in Range(LowerChars)

\* the names the section scan is to skip
isSkippedName(name) == name \in {S_DS_STORE, S_INDEX_MD} \/ isLanguageIndex(name)

\* C13: the section scan skips an entry exactly when its name is .DS_Store,
\* _index.md or _index.<lang>.md: the list a scan returns holds an entity
\* built from every other file of the directory (my_index.md among them) and
\* none built from _index.md.
C13_SkipsExactNamesOnly ==
  pc = "returned"
  => /\ \A i \in blog :
          ~blogEntry(i).isDirectory /\ ~isSkippedName(blogEntry(i).name)
          => \E k \in 1..Len(pages) : pages[k].wordCount = blogEntry(i).doc.body.words
     /\ \A k \in 1..Len(pages) : pages[k].wordCount # BlogIndex.doc.body.words

\* an entry named with a date prefix whose document loads
isLoadablePost(e) == MatchDate(e.name) # <<>> /\ loadError(e) = ""

\* an undated file whose document loads and whose name holds none of the
\* strings the scan skips
isLoadablePage(e) ==
  /\ ~e.isDirectory /\ MatchDate(e.name) = <<>>
  /\ loadError(e) = "" /\ ~RegexSearch(e.name, SKIP_REGEX)

\* C14: the scan of a directory of posts that load, one of them named
\* 2024-13-45-x.md, does not throw, alone or together with other posts.
C14_InvalidDateDoesNotCrash ==
  /\ \E i \in blog : blogEntry(i).name = N_BADDATE
  /\ \A i \in blog : isLoadablePost(blogEntry(i))
  => pc # "threw"

\* C15: the scan of a directory that holds undated pages and posts of valid
\* dates, all of which load, does not throw in any enumeration order, and
\* the list it returns holds every page and every post exactly once.
C15_PagesAndPostsScanTogether ==
  /\ \E i \in blog : isLoadablePage(blogEntry(i))
  /\ \E i \in blog : isLoadablePost(blogEntry(i))
  /\ \A i \in blog :
       \/ isLoadablePage(blogEntry(i))
       \/ isLoadablePost(blogEntry(i)) /\ NewDate(MatchDate(blogEntry(i).name)[1]).valid
  => /\ pc # "threw"
     /\ pc = "returned"
        => /\ Len(pages) = Cardinality(blog)
           /\ \A i \in blog :
                Cardinality({ k \in 1..Len(pages) :
                              pages[k].wordCount = allFiles(<<blogEntry(i)>>)[1].doc.body.words }) = 1

====
